---- MODULE Spec2Model ----
(***************************************************************************)
(* Model of web_session_demo.py: the session registry `sessions`, the      *)
(* idle-session scheduler task `timeout_idle_sessions`, and the per-       *)
(* connection ASGI handlers `handle_http` and `handle_websocket`.          *)
(*                                                                         *)
(* asyncio is cooperative: code between two `await`s runs atomically, so   *)
(* each action below is the code from one resumption to the next await.    *)
(* A message is emitted at the call of send(); a suspension inside send()  *)
(* that is followed directly by `await receive()` is merged with it.       *)
(*                                                                         *)
(* Time is counted in ticks, TicksPerSecond ticks to a second, so that     *)
(* time.time() has a fractional part and round() has something to round.   *)
(* Strings are sequences of symbols: a session id is a sequence of digit   *)
(* characters, a cookie header value a sequence of symbols in which "="    *)
(* is the character "=" and ";" stands for the separator "; ".             *)
(***************************************************************************)
EXTENDS Integers, Sequences, FiniteSets

VARIABLES
    clock,                      \* time.time(), in ticks
    sessions,                   \* the dict sessions: session id -> [count, expires]
    timeout_idle_sessions_task, \* the global task handle: None or Task
    tasks,                      \* live instances of timeout_idle_sessions()
    scope,                      \* per connection: [type, headers], or Unused
    pc,                         \* per connection: position of its handler
    session_id,                 \* per connection: local session_id of handle_websocket
    sent,                       \* per connection: messages passed to send() in the
                                \* latest step of its handler
    logged,                     \* per connection: the latest info or warning line
                                \* its handler has logged
    phase,                      \* per connection: the server's side of it: new, open
                                \* (accepted) or closed
    nevents,                    \* inputs so far: connections made, events received
                                \* and clock advances (bounded)
    stale,                      \* history: per connection, its session was deleted
    deleted,                    \* history: session ids some sweep has deleted
    touched                     \* history: per session id in sessions, the clock at
                                \* the latest HTTP request that created or refreshed it

vars == << clock, sessions, timeout_idle_sessions_task, tasks,
           scope, pc, session_id, sent, logged, phase, nevents, stale, deleted, touched >>

----------------------------------------------------------------------------
(* Bounds of the model *)

MaxConns == 2        \* connections the server accepts in one run
MaxEvents == 7       \* inputs in one run: calls of main, events receive()
                     \* returns, clock advances
TicksPerSecond == 2  \* resolution of the clock
MaxLiveEvents == 5   \* inputs in one run in which progress is checked

(* Program constants *)

SESSION_TIMEOUT == 30
GOING_AWAY == 1001
POLICY_VIOLATION == 1008

Conns == 1 .. MaxConns

None == << "None" >>
\* the scope of a connection slot no client has used yet
Unused == [type |-> "unused", headers |-> << >>]

(* random.choices(list(range(10)), k = 10): the digits and the id strings, *)
(* scaled down to one-character ids over two digits.                       *)
Digits == { "0", "1" }
SessionIds == { << d >> : d \in Digits }

----------------------------------------------------------------------------
(* Useful stuff: get_cookies *)

\* index of the first occurrence of sep in s from position i on, 0 if none
RECURSIVE Find(_, _, _)
Find(s, sep, i) ==
    IF i > Len(s) THEN 0
    ELSE IF s[i] = sep THEN i
    ELSE Find(s, sep, i + 1)

\* value.split("; "): the items between separators, in order
RECURSIVE Split(_, _)
Split(s, sep) ==
    LET k == Find(s, sep, 1)
    IN  IF k = 0 THEN << s >>
        ELSE << SubSeq(s, 1, k - 1) >> \o Split(SubSeq(s, k + 1, Len(s)), sep)

\* cookies after the items items[i..] have been stored into it
RECURSIVE StoreItems(_, _, _)
StoreItems(cookies, items, i) ==
    IF i > Len(items) THEN cookies
    ELSE LET item == items[i]
             k == Find(item, "=", 1)
         IN  IF k = 0
             THEN StoreItems(cookies, items, i + 1)       \* ValueError: skipped
             ELSE LET name == SubSeq(item, 1, k - 1)
                      val == SubSeq(item, k + 1, Len(item))
                  IN  StoreItems(
                          [n \in DOMAIN cookies \cup {name} |->
                              IF n = name THEN val ELSE cookies[n]],
                          items, i + 1)

\* cookies after the headers headers[i..] have been decoded into it
RECURSIVE DecodeHeaders(_, _, _)
DecodeHeaders(cookies, headers, i) ==
    IF i > Len(headers) THEN cookies
    ELSE LET keyword == headers[i][1]
             value == headers[i][2]
         IN  IF keyword = "cookie" /\ value # << "undecodable" >>
             THEN DecodeHeaders(StoreItems(cookies, Split(value, ";"), 1), headers, i + 1)
             ELSE DecodeHeaders(cookies, headers, i + 1)

get_cookies(sc) == DecodeHeaders(<< >>, sc.headers, 1)

\* dict.get(key): the value, or None
Get(dict, key) == IF key \in DOMAIN dict THEN dict[key] ELSE None

----------------------------------------------------------------------------
(* Mainline: time *)

\* Python's round() of a time given in ticks: the nearest whole second,
\* a half going to the even second
Round(t) ==
    LET q == t \div TicksPerSecond
        r == t % TicksPerSecond
    IN  IF 2 * r < TicksPerSecond THEN q
        ELSE IF 2 * r > TicksPerSecond THEN q + 1
        ELSE IF q % 2 = 0 THEN q ELSE q + 1

\* a time in whole seconds, in ticks
Ticks(seconds) == seconds * TicksPerSecond

\* round(time.time() + SESSION_TIMEOUT), in seconds
NewExpires(now) == Round(now + Ticks(SESSION_TIMEOUT))

\* time passes: the clock moves by one tick (a fraction of a second) or by
\* a whole SESSION_TIMEOUT
TickKinds == { "short", "long" }

TickStep(kind) == IF kind = "short" THEN 1 ELSE Ticks(SESSION_TIMEOUT)

Tick(kind) ==
    /\ nevents < MaxEvents
    /\ clock' = clock + TickStep(kind)
    /\ nevents' = nevents + 1
    /\ UNCHANGED << sessions, timeout_idle_sessions_task, tasks, scope, pc,
                    session_id, sent, logged, phase, stale, deleted, touched >>

----------------------------------------------------------------------------
(* Mainline: timeout_idle_sessions *)

Min(S) == CHOOSE x \in S : \A y \in S : x <= y

\* faulty variant of IsExpired: the comparison is strict
IsExpiredStrictly(ses, now) == Ticks(ses.expires) < now

\* ses["expires"] <= now
IsExpired(ses, now) == Ticks(ses.expires) <= now

\* to_delete after the loop over sessions.items()
ToDelete(now) == { sesid \in DOMAIN sessions : IsExpired(sessions[sesid], now) }

\* next_expiry after the loop over sessions.items(): the empty set for
\* None, or the set of the one value in seconds
NextExpiry(now) ==
    LET alive == { sessions[sesid].expires :
                       sesid \in { s \in DOMAIN sessions : ~ IsExpired(sessions[s], now) } }
    IN  IF alive = {} THEN {} ELSE { Min(alive) }

\* asyncio.create_task(timeout_idle_sessions(logger)): a new instance that
\* has yet to run
NewTask == [pc |-> "startup", wake |-> 0]

RemoveAt(seq, i) == SubSeq(seq, 1, i - 1) \o SubSeq(seq, i + 1, Len(seq))

\* faulty variant of TaskHandleAtExit: the assignment does not reach the global
TaskHandleKeptAtExit == timeout_idle_sessions_task

\* timeout_idle_sessions_task = None, the last statement of the task
TaskHandleAtExit == "None"

\* faulty variant of Sleeping: the task polls at a fixed interval
SleepingForTimeout(now, next_expiry) ==
    [pc |-> "sleep", wake |-> now + Ticks(SESSION_TIMEOUT)]

\* the task after its sweep: it sleeps until next_expiry
Sleeping(now, next_expiry) ==
    [pc |-> "sleep", wake |-> now + (Ticks(next_expiry) - now)]

\* one pass of the while loop of instance i: from its start, or from the
\* return of asyncio.sleep(), to the next asyncio.sleep() or to its exit
timeout_idle_sessions(i) ==
    /\ i \in 1 .. Len(tasks)
    /\ \/ tasks[i].pc = "startup"
       \/ tasks[i].pc = "sleep" /\ clock >= tasks[i].wake
    /\ LET now == clock
           to_delete == ToDelete(now)
           next_expiry == NextExpiry(now)
       IN  /\ sessions' = [sesid \in DOMAIN sessions \ to_delete |-> sessions[sesid]]
           /\ deleted' = deleted \cup to_delete
           /\ stale' = [c \in Conns |-> stale[c] \/ session_id[c] \in to_delete]
           /\ touched' = [sesid \in DOMAIN sessions \ to_delete |-> touched[sesid]]
           /\ IF next_expiry = {}
              THEN /\ tasks' = RemoveAt(tasks, i)
                   /\ timeout_idle_sessions_task' = TaskHandleAtExit
              ELSE /\ tasks' = [tasks EXCEPT ![i] = Sleeping(now, Min(next_expiry))]
                   /\ UNCHANGED timeout_idle_sessions_task
    /\ UNCHANGED << clock, scope, pc, session_id, sent, logged, phase,
                    nevents >>

----------------------------------------------------------------------------
(* Mainline: main *)

\* the cookie header values clients present, as symbol sequences:
\* "sessionid=", "sessionid=<id>" for each id, and a value of several items
EmptyCookie == << "sessionid", "=" >>
IdCookie(id) == << "sessionid", "=" >> \o id
NoHeaders == << >>
CookieHeader(value) == << << "cookie", value >> >>

\* the scopes of the connections the server hands to main. For handle_http
\* an empty cookie value is a value not in sessions, like any unknown id.
ScopeChoices ==
    { [type |-> "http", headers |-> NoHeaders] } \cup
    { [type |-> "http", headers |-> CookieHeader(IdCookie(id))] : id \in SessionIds } \cup
    { [type |-> "websocket", headers |-> NoHeaders],
      [type |-> "websocket", headers |-> CookieHeader(EmptyCookie)] } \cup
    { [type |-> "websocket", headers |-> CookieHeader(IdCookie(id))] : id \in SessionIds } \cup
    { [type |-> "lifespan", headers |-> NoHeaders] }

\* faulty variant of main: a handler is entered whatever the scope type
main_without_check(c, sc) ==
    /\ nevents < MaxEvents
    /\ scope[c].type = "unused"
    /\ \A b \in Conns : b < c => scope[b].type # "unused"
    /\ scope' = [scope EXCEPT ![c] = sc]
    /\ pc' = [pc EXCEPT ![c] = "receive"]
    /\ nevents' = nevents + 1
    /\ UNCHANGED << clock, sessions, timeout_idle_sessions_task, tasks,
                    session_id, sent, logged, phase, stale, deleted, touched >>

\* main(scope, receive, send) is called for a new connection c and runs to
\* the first `await receive()` of its handler; any other scope type raises
main(c, sc) ==
    /\ nevents < MaxEvents
    /\ scope[c].type = "unused"
    /\ \A b \in Conns : b < c => scope[b].type # "unused"
    /\ scope' = [scope EXCEPT ![c] = sc]
    /\ pc' = [pc EXCEPT ![c] =
                 IF sc.type = "http" \/ sc.type = "websocket"
                 THEN "receive" ELSE "raised"]
    /\ nevents' = nevents + 1
    /\ UNCHANGED << clock, sessions, timeout_idle_sessions_task, tasks,
                    session_id, sent, logged, phase, stale, deleted, touched >>

----------------------------------------------------------------------------
(* Mainline: handle_http *)

\* faulty variant of FreeIds: the candidate is not looked up in sessions
DrawnIds == SessionIds

\* the session id no record of sessions has: the result of the while loop
\* that draws ids until one is not in sessions (the loop does not end when
\* every id is taken; the ten-digit id space of the program never fills)
FreeIds == SessionIds \ DOMAIN sessions

\* session_id after the lookup of the presented cookie: None when the
\* cookie is absent or its value is not in sessions
PresentedSession(c) ==
    LET cookie == Get(get_cookies(scope[c]), << "sessionid" >>)
    IN  IF cookie # None /\ cookie \notin DOMAIN sessions THEN None ELSE cookie

\* faulty variant of FreshRecord: the creating request is counted as a connection
FreshRecordCounted == [count |-> 1]

\* sessions[session_id] = {"count" : 0}, before "expires" is stored
FreshRecord == [count |-> 0]

\* faulty variant of WithExpires: expires is stored only in a record without one
WithExpiresOnlyIfAbsent(ses, now) ==
    IF "expires" \in DOMAIN ses THEN ses
    ELSE [k \in DOMAIN ses \cup { "expires" } |->
             IF k = "expires" THEN NewExpires(now) ELSE ses[k]]

\* faulty variant of WithExpires: the record is rebuilt and its count reset
WithExpiresResetCount(ses, now) ==
    [count |-> 0, expires |-> NewExpires(now)]

\* sessions[session_id]["expires"] = round(time.time() + SESSION_TIMEOUT)
\* on a record that may not have the key yet
WithExpires(ses, now) ==
    [k \in DOMAIN ses \cup { "expires" } |->
        IF k = "expires" THEN NewExpires(now) ELSE ses[k]]

\* faulty variant of MustStartTask: the handle is not looked at
MustStartTaskAlways == TRUE

\* faulty variant of MustStartTask: no instance is ever created
MustStartTaskNever == FALSE

\* the task handle is None: a new instance has to be created
MustStartTask == timeout_idle_sessions_task = "None"

HttpResponseStart(sid, expires) ==
    [type |-> "http.response.start", sessionid |-> sid, expires |-> expires]

HttpResponseBody(sid) ==
    [type |-> "http.response.body", session_id |-> sid]

\* faulty variant of handle_http_request: the handler is suspended after the
\* insertion of a new record, before its expires is stored
handle_http_request_suspending(c, new) ==
    LET presented == PresentedSession(c)
        sid == IF presented = None THEN new ELSE presented
        before == IF presented = None THEN FreshRecord ELSE sessions[sid]
        after == IF presented = None THEN before ELSE WithExpires(before, clock)
    IN  /\ sessions' = [s \in DOMAIN sessions \cup { sid } |->
                           IF s = sid THEN after ELSE sessions[s]]
        /\ IF presented = None /\ MustStartTask
           THEN /\ tasks' = Append(tasks, NewTask)
                /\ timeout_idle_sessions_task' = "Task"
           ELSE UNCHANGED << tasks, timeout_idle_sessions_task >>
        /\ session_id' = [session_id EXCEPT ![c] = sid]
        /\ sent' = [sent EXCEPT ![c] = << HttpResponseStart(sid, NewExpires(clock)) >>]
        /\ logged' = [logged EXCEPT ![c] =
                         IF presented = None THEN "assigning session ID"
                         ELSE "existing session ID"]
        /\ pc' = [pc EXCEPT ![c] = "send_body"]
        /\ nevents' = nevents + 1
        /\ touched' = [s \in DOMAIN sessions \cup { sid } |->
                          IF s = sid THEN clock ELSE touched[s]]
        /\ UNCHANGED << clock, scope, phase, stale, deleted >>

\* an http.request event: from the return of receive() to the suspension in
\* send() of http.response.start. new is the id the generator settles on,
\* used only when the presented cookie names no session.
handle_http_request(c, new) ==
    LET presented == PresentedSession(c)
        sid == IF presented = None THEN new ELSE presented
        before == IF presented = None THEN FreshRecord ELSE sessions[sid]
        after == WithExpires(before, clock)
    IN  /\ sessions' = [s \in DOMAIN sessions \cup { sid } |->
                           IF s = sid THEN after ELSE sessions[s]]
        /\ IF presented = None /\ MustStartTask
           THEN /\ tasks' = Append(tasks, NewTask)
                /\ timeout_idle_sessions_task' = "Task"
           ELSE UNCHANGED << tasks, timeout_idle_sessions_task >>
        /\ session_id' = [session_id EXCEPT ![c] = sid]
        /\ sent' = [sent EXCEPT ![c] = << HttpResponseStart(sid, after.expires) >>]
        /\ logged' = [logged EXCEPT ![c] =
                         IF presented = None THEN "assigning session ID"
                         ELSE "existing session ID"]
        /\ pc' = [pc EXCEPT ![c] = "send_body"]
        /\ nevents' = nevents + 1
        /\ touched' = [s \in DOMAIN sessions \cup { sid } |->
                          IF s = sid THEN clock ELSE touched[s]]
        /\ UNCHANGED << clock, scope, phase, stale, deleted >>

HttpRequest(c) ==
    /\ scope[c].type = "http"
    /\ pc[c] = "receive"
    /\ nevents < MaxEvents
    /\ IF PresentedSession(c) = None
       THEN \E new \in FreeIds : handle_http_request(c, new)
       ELSE handle_http_request(c, None)

\* send() of http.response.start returns: http.response.body is sent and
\* the handler waits for the next event
HttpSendBody(c) ==
    /\ pc[c] = "send_body"
    /\ sent' = [sent EXCEPT ![c] = << HttpResponseBody(session_id[c]) >>]
    /\ pc' = [pc EXCEPT ![c] = "receive"]
    /\ UNCHANGED << clock, sessions, timeout_idle_sessions_task, tasks,
                    scope, session_id, logged, phase, nevents, stale, deleted, touched >>

\* an event of any other type: a warning is logged and the loop goes on
HttpUnexpected(c) ==
    /\ scope[c].type = "http"
    /\ pc[c] = "receive"
    /\ nevents < MaxEvents
    /\ sent' = [sent EXCEPT ![c] = << >>]
    /\ logged' = [logged EXCEPT ![c] = "unexpected http event type"]
    /\ nevents' = nevents + 1
    /\ UNCHANGED << clock, sessions, timeout_idle_sessions_task, tasks,
                    scope, pc, session_id, phase, stale, deleted, touched >>

\* an http.disconnect event: the loop ends
HttpDisconnect(c) ==
    /\ scope[c].type = "http"
    /\ pc[c] = "receive"
    /\ nevents < MaxEvents
    /\ pc' = [pc EXCEPT ![c] = "done"]
    /\ sent' = [sent EXCEPT ![c] = << >>]
    /\ logged' = [logged EXCEPT ![c] = "http disconnect"]
    /\ phase' = [phase EXCEPT ![c] = "closed"]
    /\ nevents' = nevents + 1
    /\ UNCHANGED << clock, sessions, timeout_idle_sessions_task, tasks,
                    scope, session_id, stale, deleted, touched >>

----------------------------------------------------------------------------
(* Mainline: handle_websocket *)

WsAccept == [type |-> "websocket.accept"]
WsClose(code) == [type |-> "websocket.close", code |-> code]

\* Python truth of a cookie value: None and the empty string are false
Truthy(v) == v # None /\ v # << >>

\* session_id after lines 329-333: the cookie, or None when a nonempty
\* cookie is not in sessions
ConnectSession(c) ==
    LET cookie == Get(get_cookies(scope[c]), << "sessionid" >>)
    IN  IF Truthy(cookie) /\ cookie \notin DOMAIN sessions THEN None ELSE cookie

\* the close code of the rejection of a connect without a valid session
RejectCode == POLICY_VIOLATION

\* the close code sent when the bound session is no longer in sessions
TimedOutCode == GOING_AWAY

\* the check at the top of the loop: the session this connection holds is
\* no longer in sessions
TimedOut(c) == session_id[c] # None /\ session_id[c] \notin DOMAIN sessions

\* faulty variant of EchoReply: only the text key is copied
EchoTextOnly(event) ==
    [k \in { "type" } \cup ({ "text" } \cap DOMAIN event) |->
        IF k = "type" THEN "websocket.send" ELSE event[k]]

\* the reply to a websocket.receive event: its text and bytes keys copied
EchoReply(event) ==
    [k \in { "type" } \cup ({ "text", "bytes" } \cap DOMAIN event) |->
        IF k = "type" THEN "websocket.send" ELSE event[k]]

\* the websocket.receive events a client sends
ReceiveEvents ==
    { [type |-> "websocket.receive", text |-> "pingy-pingy"],
      [type |-> "websocket.receive", bytes |-> "ping", text |-> "None"] }

AddCount(sid, d) ==
    [sessions EXCEPT ![sid] = [@ EXCEPT !.count = @ + d]]

\* the websocket.connect branch
ws_connect(c) ==
    LET sid == ConnectSession(c)
    IN  IF sid # None
        THEN IF sid \in DOMAIN sessions
             THEN /\ sessions' = AddCount(sid, 1)
                  /\ session_id' = [session_id EXCEPT ![c] = sid]
                  /\ sent' = [sent EXCEPT ![c] = << WsAccept >>]
                  /\ logged' = [logged EXCEPT ![c] = "got session ID"]
                  /\ phase' = [phase EXCEPT ![c] = "open"]
                  /\ UNCHANGED pc
             ELSE \* sessions[session_id] raises KeyError out of the handler
                  /\ session_id' = [session_id EXCEPT ![c] = sid]
                  /\ pc' = [pc EXCEPT ![c] = "raised"]
                  /\ sent' = [sent EXCEPT ![c] = << >>]
                  /\ UNCHANGED << sessions, logged, phase >>
        ELSE /\ session_id' = [session_id EXCEPT ![c] = None]
             /\ sent' = [sent EXCEPT ![c] = << WsClose(RejectCode) >>]
             /\ logged' = [logged EXCEPT ![c] = "no session ID cookie found"]
             /\ phase' = [phase EXCEPT ![c] = "closed"]
             /\ UNCHANGED << sessions, pc >>

\* faulty variant of ws_receive: a heartbeat message refreshes the session
ws_receive_refreshing(c, event) ==
    /\ sent' = [sent EXCEPT ![c] = << EchoReply(event) >>]
    /\ logged' = [logged EXCEPT ![c] = "ping"]
    /\ sessions' = IF session_id[c] \in DOMAIN sessions
                   THEN [sessions EXCEPT ![session_id[c]] = WithExpires(@, clock)]
                   ELSE sessions
    /\ UNCHANGED << session_id, pc, phase >>

\* the websocket.receive branch
ws_receive(c, event) ==
    /\ sent' = [sent EXCEPT ![c] = << EchoReply(event) >>]
    /\ logged' = [logged EXCEPT ![c] = "ping"]
    /\ UNCHANGED << sessions, session_id, pc, phase >>

\* the websocket.disconnect branch
ws_disconnect(c) ==
    /\ sessions' = IF session_id[c] \in DOMAIN sessions
                   THEN AddCount(session_id[c], -1) ELSE sessions
    /\ pc' = [pc EXCEPT ![c] = "done"]
    /\ sent' = [sent EXCEPT ![c] = << >>]
    /\ logged' = [logged EXCEPT ![c] =
                     IF session_id[c] \in DOMAIN sessions
                     THEN "conn count" ELSE "disconnect code"]
    /\ phase' = [phase EXCEPT ![c] = "closed"]
    /\ UNCHANGED session_id

\* the else branch: an event of any other type is logged with a warning and
\* the loop goes on
ws_unexpected(c) ==
    /\ sent' = [sent EXCEPT ![c] = << >>]
    /\ logged' = [logged EXCEPT ![c] = "websocket unexpected event type"]
    /\ UNCHANGED << sessions, session_id, pc, phase >>

\* one pass of the while loop: from the return of receive() with event to
\* the next receive(), or to the end of the handler
handle_websocket(c, event) ==
    /\ scope[c].type = "websocket"
    /\ pc[c] = "receive"
    /\ nevents < MaxEvents
    /\ nevents' = nevents + 1
    /\ IF TimedOut(c)
       THEN /\ sent' = [sent EXCEPT ![c] = << WsClose(TimedOutCode) >>]
            /\ logged' = [logged EXCEPT ![c] = "has timed out"]
            /\ phase' = [phase EXCEPT ![c] = "closed"]
            /\ pc' = [pc EXCEPT ![c] = "done"]
            /\ UNCHANGED << sessions, session_id >>
       ELSE IF event.type = "websocket.connect" THEN ws_connect(c)
       ELSE IF event.type = "websocket.receive" THEN ws_receive(c, event)
       ELSE IF event.type = "websocket.disconnect" THEN ws_disconnect(c)
       ELSE ws_unexpected(c)
    /\ UNCHANGED << clock, timeout_idle_sessions_task, tasks, scope,
                    stale, deleted, touched >>

(* The events the server delivers, as the ASGI specification orders them:  *)
(* websocket.connect first and once, websocket.receive only on an accepted *)
(* and not closed connection, websocket.disconnect once the connection is  *)
(* open or the handler has closed it. An event of a type the handler does  *)
(* not know can arrive at any time.                                        *)

WsConnect(c) ==
    /\ phase[c] = "new"
    /\ handle_websocket(c, [type |-> "websocket.connect"])

WsReceive(c, event) ==
    /\ phase[c] = "open"
    /\ handle_websocket(c, event)

WsDisconnect(c) ==
    /\ phase[c] # "new"
    /\ handle_websocket(c, [type |-> "websocket.disconnect", code |-> 1000])

WsUnexpected(c) ==
    handle_websocket(c, [type |-> "websocket.other"])

----------------------------------------------------------------------------
(* The program *)

Init ==
    /\ clock = 0
    /\ sessions = << >>
    /\ timeout_idle_sessions_task = "None"
    /\ tasks = << >>
    /\ scope = [c \in Conns |-> Unused]
    /\ pc = [c \in Conns |-> "unused"]
    /\ session_id = [c \in Conns |-> None]
    /\ sent = [c \in Conns |-> << >>]
    /\ logged = [c \in Conns |-> "nothing"]
    /\ phase = [c \in Conns |-> "new"]
    /\ nevents = 0
    /\ stale = [c \in Conns |-> FALSE]
    /\ deleted = {}
    /\ touched = << >>

Next ==
    \/ \E kind \in TickKinds : Tick(kind)
    \/ \E i \in 1 .. Len(tasks) : timeout_idle_sessions(i)
    \/ \E c \in Conns : \E sc \in ScopeChoices : main(c, sc)
    \/ \E c \in Conns : HttpRequest(c)
    \/ \E c \in Conns : HttpSendBody(c)
    \/ \E c \in Conns : HttpDisconnect(c)
    \/ \E c \in Conns : WsConnect(c)
    \/ \E c \in Conns : \E event \in ReceiveEvents : WsReceive(c, event)
    \/ \E c \in Conns : WsDisconnect(c)
    \/ \E c \in Conns : HttpUnexpected(c)
    \/ \E c \in Conns : WsUnexpected(c)

\* time passes while an instance of the task sleeps: the clock reaches the
\* earliest time an asyncio.sleep() is due to return
TimePasses ==
    LET due == { tasks[i].wake : i \in { j \in 1 .. Len(tasks) :
                     tasks[j].pc = "sleep" /\ tasks[j].wake > clock } }
    IN  /\ due # {}
        /\ clock' = Min(due)
        /\ UNCHANGED << sessions, timeout_idle_sessions_task, tasks, scope, pc,
                        session_id, sent, logged, phase, nevents, stale, deleted, touched >>

\* some instance of the task runs one pass
Sweep == \E i \in 1 .. Len(tasks) : timeout_idle_sessions(i)

Spec == Init /\ [][Next]_vars

\* the program with a clock that keeps advancing and an event loop that
\* runs every task that is ready: a created task is run, and a sleep that
\* is over returns. The clients stop after MaxLiveEvents inputs.
InLiveBudget == nevents' <= MaxLiveEvents

LiveNext ==
    \/ (\E kind \in TickKinds : Tick(kind)) /\ InLiveBudget
    \/ Sweep
    \/ (\E c \in Conns : \E sc \in ScopeChoices : main(c, sc)) /\ InLiveBudget
    \/ (\E c \in Conns : HttpRequest(c)) /\ InLiveBudget
    \/ \E c \in Conns : HttpSendBody(c)
    \/ (\E c \in Conns : HttpDisconnect(c)) /\ InLiveBudget
    \/ (\E c \in Conns : WsConnect(c)) /\ InLiveBudget
    \/ (\E c \in Conns : \E event \in ReceiveEvents : WsReceive(c, event)) /\ InLiveBudget
    \/ (\E c \in Conns : WsDisconnect(c)) /\ InLiveBudget
    \/ (\E c \in Conns : HttpUnexpected(c)) /\ InLiveBudget
    \/ (\E c \in Conns : WsUnexpected(c)) /\ InLiveBudget
    \/ TimePasses

LiveSpec ==
    /\ Init
    /\ [][LiveNext]_vars
    /\ WF_vars(TimePasses)
    /\ WF_vars(Sweep)

----------------------------------------------------------------------------
(* Steps of the handlers, as seen from a pair of states *)

SessionCookie(c) == Get(get_cookies(scope[c]), << "sessionid" >>)

\* this step is handle_http of connection c processing an http.request
HttpRequestStep(c) ==
    /\ scope[c].type = "http"
    /\ pc[c] = "receive"
    /\ pc'[c] = "send_body"

\* ... in which the presented cookie was found in sessions and refreshed
HttpRefreshStep(c) ==
    /\ HttpRequestStep(c)
    /\ logged'[c] = "existing session ID"

\* this step is handle_websocket of connection c processing its
\* websocket.connect
WsConnectStep(c) ==
    /\ scope[c].type = "websocket"
    /\ pc[c] = "receive"
    /\ phase[c] = "new"
    /\ phase'[c] # "new" \/ pc'[c] # "receive"

\* ... in which the connection was bound to the session of its cookie
WsBindStep(c) ==
    /\ WsConnectStep(c)
    /\ phase'[c] = "open"

\* this step is handle_websocket of connection c processing an event
WsEventStep(c) ==
    /\ scope[c].type = "websocket"
    /\ pc[c] = "receive"
    /\ nevents' = nevents + 1
    /\ pc'[c] # pc[c] \/ sent'[c] # sent[c] \/ logged'[c] # logged[c]
       \/ phase'[c] # phase[c]

\* the duplex connections accepted with session id t that have not ended
BoundConns(t) ==
    { c \in Conns : /\ scope[c].type = "websocket"
                    /\ phase[c] = "open"
                    /\ pc[c] = "receive"
                    /\ session_id[c] = t }

----------------------------------------------------------------------------
(* Claims *)

\* C1: for every session id in sessions, its count is >= 0 and equals the
\* number of duplex connections that were accepted presenting that id and
\* have not yet terminated.
C1_CountIsBoundConnections ==
    \A t \in DOMAIN sessions :
        /\ sessions[t].count >= 0
        /\ sessions[t].count = Cardinality(BoundConns(t))

\* C2: once a sweep has deleted session id t, no later HTTP request and no
\* later duplex connect presenting t finds t in sessions.
C2_DeletedNeverFoundAgain ==
    [][ \A c \in Conns :
           (HttpRequestStep(c) \/ WsConnectStep(c)) /\ SessionCookie(c) \in deleted
               => SessionCookie(c) \notin DOMAIN sessions ]_vars

\* C3: whenever the HTTP handler accepts a presented id as existing, or the
\* duplex handler binds one, that session's expires is strictly later than
\* the clock at that instant.
C3_AcceptedOnlyBeforeExpiry ==
    [][ \A c \in Conns :
           HttpRefreshStep(c) \/ WsBindStep(c)
               => Ticks(sessions[SessionCookie(c)].expires) > clock ]_vars

\* C4 as claimed: an HTTP request presenting an id found in sessions, at a
\* clock value before its expires, strictly increases its expires.
C4_RefreshStrictlyIncreases ==
    [][ \A c \in Conns :
           /\ HttpRefreshStep(c)
           /\ clock < Ticks(sessions[SessionCookie(c)].expires)
           => /\ SessionCookie(c) \in DOMAIN sessions'
              /\ sessions'[SessionCookie(c)].expires
                     > sessions[SessionCookie(c)].expires ]_vars

\* C4 as amended: such a request succeeds and sets expires to
\* round(now + SESSION_TIMEOUT), which is never less than the old expires
\* (and is equal to it when the clock has not moved far enough).
C4_RefreshNeverDecreases ==
    [][ \A c \in Conns :
           /\ HttpRefreshStep(c)
           /\ clock < Ticks(sessions[SessionCookie(c)].expires)
           => /\ SessionCookie(c) \in DOMAIN sessions'
              /\ session_id'[c] = SessionCookie(c)
              /\ sessions'[SessionCookie(c)].expires
                     = Round(clock + Ticks(SESSION_TIMEOUT))
              /\ sessions'[SessionCookie(c)].expires
                     >= sessions[SessionCookie(c)].expires ]_vars

\* a request has just refreshed a session before its expiry: every session
\* alive before one SESSION_TIMEOUT has passed expires later than that
C4_Witness ==
    \E c \in Conns :
        /\ scope[c].type = "http"
        /\ pc[c] = "send_body"
        /\ logged[c] = "existing session ID"
        /\ clock < Ticks(SESSION_TIMEOUT)

\* C5: between any two steps, the task handle is set if and only if
\* sessions is not empty.
C5_TaskSetIffSessions ==
    (timeout_idle_sessions_task # "None") <=> (DOMAIN sessions # {})

\* a sweep has emptied sessions and the task has stopped
C5_Witness ==
    /\ deleted # {}
    /\ DOMAIN sessions = {}
    /\ timeout_idle_sessions_task = "None"

\* C6: at most one instance of timeout_idle_sessions exists at any time.
C6_AtMostOneTask == Len(tasks) <= 1

\* a session has been created while an instance existed, and after an
\* earlier instance had ended
C6_Witness ==
    /\ Len(tasks) = 1
    /\ deleted # {}
    /\ Cardinality(DOMAIN sessions) = 2

\* the presented cookie names no session: it is absent, or its value (the
\* empty string included) is not in sessions
Unresolved(c) == SessionCookie(c) \notin DOMAIN sessions

\* C7: on a duplex connect whose cookie does not resolve in sessions, the
\* handler sends a close with POLICY_VIOLATION and no accept, and leaves
\* sessions unchanged.
C7_UnresolvedConnectRejected ==
    [][ \A c \in Conns :
           WsConnectStep(c) /\ Unresolved(c)
               => /\ sent'[c] = << WsClose(POLICY_VIOLATION) >>
                  /\ sessions' = sessions ]_vars

\* the handler has rejected the connect of connection c
Rejected(c) ==
    /\ scope[c].type = "websocket"
    /\ sent[c] = << WsClose(POLICY_VIOLATION) >>

\* C8: after the duplex handler has rejected a connect with a
\* POLICY_VIOLATION close, it processes no further event on that connection.
C8_RejectedIsTerminal ==
    [][ \A c \in Conns : Rejected(c) => ~ WsEventStep(c) ]_vars

\* C9: if a duplex connection is bound to a session that a sweep has
\* deleted, the next event its handler receives makes it send a close with
\* GOING_AWAY and end, and no count changes.
C9_StaleConnectionGoesAway ==
    [][ \A c \in Conns :
           WsEventStep(c) /\ phase[c] = "open" /\ stale[c]
               => /\ sent'[c] = << WsClose(GOING_AWAY) >>
                  /\ pc'[c] = "done"
                  /\ sessions' = sessions ]_vars

\* this step is one pass of an instance of timeout_idle_sessions
SweepStep ==
    /\ nevents' = nevents
    /\ pc' = pc
    /\ tasks' # tasks \/ sessions' # sessions

\* C10: a record leaves sessions only in a sweep, and a sweep removes
\* exactly the records whose expires <= the clock at the sweep; no step of
\* a handler removes a record.
C10_OnlySweepDeletes ==
    [][ /\ (DOMAIN sessions \ DOMAIN sessions' # {}) => SweepStep
        /\ SweepStep =>
              DOMAIN sessions' =
                  { t \in DOMAIN sessions : Ticks(sessions[t].expires) > clock }
        /\ (\E c \in Conns : pc'[c] # pc[c] \/ sent'[c] # sent[c])
              => DOMAIN sessions \subseteq DOMAIN sessions' ]_vars

\* a sweep has removed an expired record, and the sweeping task sleeps
\* until the expiry of a record that is still live
C10_Witness ==
    /\ deleted # {}
    /\ Len(tasks) = 1
    /\ tasks[1].pc = "sleep"
    /\ \E t \in DOMAIN sessions :
           /\ t \notin deleted
           /\ Ticks(sessions[t].expires) > clock
           /\ tasks[1].wake = Ticks(sessions[t].expires)

\* C11: for a record that stays in sessions, expires never decreases in
\* any step, and it changes only in a step in which handle_http processes a
\* request presenting that session id; no duplex event and no pass of the
\* scheduler task changes the expires of any record.
C11_ExpiresOnlyMovedByRequests ==
    [][ \A t \in DOMAIN sessions \cap DOMAIN sessions' :
           /\ sessions'[t].expires >= sessions[t].expires
           /\ sessions'[t].expires # sessions[t].expires
                 => \E c \in Conns : HttpRequestStep(c) /\ SessionCookie(c) = t
           /\ (SweepStep \/ \E c \in Conns : WsEventStep(c))
                 => sessions'[t].expires = sessions[t].expires ]_vars

\* a duplex connection has echoed a heartbeat message on a session that an
\* HTTP request has refreshed after the clock has moved
C11_Witness ==
    \E c \in Conns : \E d \in Conns :
        /\ scope[c].type = "websocket"
        /\ logged[c] = "ping"
        /\ session_id[c] \in DOMAIN sessions
        /\ scope[d].type = "http"
        /\ logged[d] = "existing session ID"
        /\ session_id[d] = session_id[c]
        /\ sessions[session_id[c]].expires > SESSION_TIMEOUT

\* the http.response.start message sent in this step on connection c
ResponseStart(c) == sent'[c][1]

\* what every http.request step does with the presented cookie: a cookie
\* found in sessions inserts nothing and is sent back; otherwise exactly one
\* record is inserted, with count 0, and its id is sent; the id sent is in
\* sessions with the expires that is sent
RequestOutcome(c) ==
    /\ ResponseStart(c).type = "http.response.start"
    /\ IF SessionCookie(c) \in DOMAIN sessions
       THEN /\ DOMAIN sessions' = DOMAIN sessions
            /\ ResponseStart(c).sessionid = SessionCookie(c)
       ELSE \E new \in SessionIds \ DOMAIN sessions :
                /\ DOMAIN sessions' = DOMAIN sessions \cup { new }
                /\ sessions'[new].count = 0
                /\ ResponseStart(c).sessionid = new
    /\ ResponseStart(c).sessionid \in DOMAIN sessions'
    /\ ResponseStart(c).expires = sessions'[ResponseStart(c).sessionid].expires

HttpCreateStep(c) ==
    /\ HttpRequestStep(c)
    /\ logged'[c] = "assigning session ID"

\* C13: a creation never settles on an id that is in sessions at the
\* insertion: it leaves every existing record as it was (count and expires),
\* and two connections hold the same assigned id only if a sweep deleted
\* that id in between.
C13_CreationNeverOverwrites ==
    [][ \A c \in Conns :
           HttpCreateStep(c)
               => /\ session_id'[c] \notin DOMAIN sessions
                  /\ DOMAIN sessions' = DOMAIN sessions \cup { session_id'[c] }
                  /\ \A t \in DOMAIN sessions : sessions'[t] = sessions[t]
                  /\ \A d \in Conns \ { c } :
                        /\ scope[d].type = "http"
                        /\ logged[d] = "assigning session ID"
                        /\ session_id[d] = session_id'[c]
                        => session_id'[c] \in deleted ]_vars

\* two HTTP handlers are both suspended in the send of their response after
\* each has created a session, and both sessions are in the registry
C13_Witness ==
    \E c \in Conns : \E d \in Conns \ { c } :
        /\ scope[c].type = "http" /\ scope[d].type = "http"
        /\ pc[c] = "send_body" /\ pc[d] = "send_body"
        /\ logged[c] = "assigning session ID"
        /\ logged[d] = "assigning session ID"
        /\ session_id[c] # session_id[d]
        /\ { session_id[c], session_id[d] } \subseteq DOMAIN sessions

\* the session ids whose record stays in sessions and changes its count
CountChanged == { t \in DOMAIN sessions \cap DOMAIN sessions' :
                      sessions'[t].count # sessions[t].count }

\* C14: every change of a count is +1 or -1 and is made by one duplex
\* connection: +1 only in the step that binds it, -1 only in the step that
\* ends it, after its own increment and on the record it incremented (not on
\* a record created after a sweep deleted the one it was bound to).
C14_CountChangesOncePerBinding ==
    [][ \A t \in CountChanged :
           \E c \in Conns :
              /\ WsEventStep(c)
              /\ session_id'[c] = t
              /\ \/ /\ sessions'[t].count = sessions[t].count + 1
                    /\ WsBindStep(c)
                 \/ /\ sessions'[t].count = sessions[t].count - 1
                    /\ phase[c] = "open"
                    /\ session_id[c] = t
                    /\ pc'[c] = "done"
                    /\ ~ stale[c] ]_vars

\* C15: with the task scheduled fairly and the clock advancing, every
\* session is eventually deleted once no HTTP request refreshes it any more,
\* whatever its count, and once no session is created any more the task
\* ends and the handle is None for good.
C15_IdleSessionsEventuallyDeleted ==
    /\ \A t \in SessionIds : (t \in DOMAIN sessions) ~> (t \notin DOMAIN sessions)
    /\ <>[](tasks = << >> /\ timeout_idle_sessions_task = "None")

\* a session was deleted while a duplex connection was bound to it, and the
\* task has stopped
C15_Witness ==
    /\ \E c \in Conns : stale[c] /\ phase[c] = "open" /\ pc[c] = "receive"
    /\ DOMAIN sessions = {}
    /\ tasks = << >>
    /\ timeout_idle_sessions_task = "None"

\* this step is the handler of connection c receiving, for the first time,
\* an event of a type it does not expect
UnexpectedStep(c) ==
    /\ pc[c] = "receive"
    /\ logged'[c] \in { "unexpected http event type",
                        "websocket unexpected event type" }
    /\ logged[c] # logged'[c]

\* C16: when a handler receives an event of an unexpected type, it stops
\* processing events on that connection, and sessions, the task and every
\* other connection are as before.
C16_UnexpectedEventTearsDown ==
    [][ \A c \in Conns :
           UnexpectedStep(c)
               => /\ pc'[c] # "receive"
                  /\ sessions' = sessions
                  /\ tasks' = tasks
                  /\ timeout_idle_sessions_task' = timeout_idle_sessions_task
                  /\ \A d \in Conns \ { c } :
                        /\ pc'[d] = pc[d]
                        /\ sent'[d] = sent[d]
                        /\ phase'[d] = phase[d]
                        /\ session_id'[d] = session_id[d] ]_vars

\* this step is the call of main for connection c
MainStep(c) ==
    /\ scope[c].type = "unused"
    /\ scope'[c].type # "unused"

\* the lines each handler logs
HttpLogLines == { "assigning session ID", "existing session ID",
                  "http disconnect", "unexpected http event type" }

WsLogLines == { "got session ID", "no session ID cookie found", "ping",
                "conn count", "disconnect code", "has timed out",
                "websocket unexpected event type" }

\* C17: main enters handle_http for scope type http and handle_websocket
\* for websocket, and only that handler ever acts on the connection; for
\* any other type it raises at once, no handler ever acts on the
\* connection, and the call leaves sessions and the task as they were.
C17_OneHandlerPerConnection ==
    [][ \A c \in Conns :
           /\ MainStep(c)
                 => /\ sessions' = sessions
                    /\ tasks' = tasks
                    /\ timeout_idle_sessions_task' = timeout_idle_sessions_task
                    /\ pc'[c] = IF scope'[c].type \in { "http", "websocket" }
                                THEN "receive" ELSE "raised"
           /\ scope'[c].type = "http"
                 => logged'[c] \in HttpLogLines \cup { "nothing" }
           /\ scope'[c].type = "websocket"
                 => logged'[c] \in WsLogLines \cup { "nothing" }
           /\ scope'[c].type \notin { "unused", "http", "websocket" }
                 => /\ pc'[c] = "raised"
                    /\ logged'[c] = "nothing"
                    /\ sent'[c] = << >>
                    /\ session_id'[c] = None
                    /\ phase'[c] = "new" ]_vars

\* main has raised for a connection of another scope type while a session
\* and its task exist, and the handler of an HTTP connection has acted
C17_Witness ==
    \E c \in Conns : \E d \in Conns :
        /\ scope[c].type = "lifespan"
        /\ pc[c] = "raised"
        /\ scope[d].type = "http"
        /\ logged[d] \in HttpLogLines
        /\ DOMAIN sessions # {}
        /\ timeout_idle_sessions_task = "Task"

\* the messages sent in this step on connection c are one websocket.send
\* with the text and bytes keys of event, and sessions and the task are as
\* before
EchoedOnce(c, event) ==
    /\ Len(sent'[c]) = 1
    /\ sent'[c][1].type = "websocket.send"
    /\ \A k \in { "text", "bytes" } :
          /\ k \in DOMAIN sent'[c][1] <=> k \in DOMAIN event
          /\ k \in DOMAIN event => sent'[c][1][k] = event[k]
    /\ pc'[c] = "receive"
    /\ sessions' = sessions
    /\ tasks' = tasks
    /\ timeout_idle_sessions_task' = timeout_idle_sessions_task

C19_KeptForWholeTimeout ==
    [][ \A t \in DOMAIN sessions \ DOMAIN sessions' :
           clock >= touched[t] + Ticks(SESSION_TIMEOUT) ]_vars

\* C20: while an instance of the task is suspended in asyncio.sleep(), the
\* time it wakes up at is not later than the expires of any record in
\* sessions, records created or refreshed during the sleep included; and
\* when a pass ends in a sleep, the wake-up time is strictly later than the
\* clock of that pass.
C20_WakeNotPastAnyExpiry ==
    [][ \A i \in 1 .. Len(tasks') :
           tasks'[i].pc = "sleep"
               => /\ \A t \in DOMAIN sessions' :
                        tasks'[i].wake <= Ticks(sessions'[t].expires)
                  /\ SweepStep => tasks'[i].wake > clock ]_vars

\* the only session has been refreshed while the task sleeps: its expires
\* is now later than the time the task wakes up at
C20_Witness ==
    /\ Len(tasks) = 1
    /\ tasks[1].pc = "sleep"
    /\ clock < tasks[1].wake
    /\ Cardinality(DOMAIN sessions) = 1
    /\ \A t \in DOMAIN sessions : tasks[1].wake < Ticks(sessions[t].expires)

\* C21: whenever a handler or the task is suspended, every record in
\* sessions has both a count and an expires; a record inserted as
\* {count: 0} has its expires before the task can run its next sweep.
C21_RecordsAreComplete ==
    \A t \in DOMAIN sessions : DOMAIN sessions[t] = { "count", "expires" }

\* a handler is suspended in the send of its response after creating a
\* session, and the task it has started has yet to run its first sweep
C21_Witness ==
    /\ Len(tasks) = 1
    /\ tasks[1].pc = "startup"
    /\ \E c \in Conns :
          /\ scope[c].type = "http"
          /\ pc[c] = "send_body"
          /\ logged[c] = "assigning session ID"
          /\ session_id[c] \in DOMAIN sessions
          /\ sessions[session_id[c]].count = 0

\* this step is handle_websocket of connection c processing a
\* websocket.disconnect when the connection was never bound: it presented
\* no session id, or its connect was rejected
UnboundDisconnectStep(c) ==
    /\ WsDisconnect(c)
    /\ session_id[c] = None

\* C22: an HTTP request presenting an id found in sessions changes nothing
\* but the expires of that record: its count, every other record, the keys
\* of sessions and the task handle are as before; and a disconnect on a
\* duplex connection that never bound changes nothing in sessions.
C22_RefreshTouchesOnlyExpires ==
    [][ \A c \in Conns :
           /\ HttpRefreshStep(c)
                 => /\ DOMAIN sessions' = DOMAIN sessions
                    /\ sessions'[SessionCookie(c)].count
                           = sessions[SessionCookie(c)].count
                    /\ \A u \in DOMAIN sessions \ { SessionCookie(c) } :
                          sessions'[u] = sessions[u]
                    /\ timeout_idle_sessions_task' = timeout_idle_sessions_task
                    /\ tasks' = tasks
           /\ UnboundDisconnectStep(c)
                 => /\ sessions' = sessions
                    /\ timeout_idle_sessions_task' = timeout_idle_sessions_task
                    /\ tasks' = tasks ]_vars

\* a request has refreshed a session to which a duplex connection is bound
C22_Witness ==
    \E c \in Conns : \E d \in Conns :
        /\ scope[c].type = "http"
        /\ pc[c] = "send_body"
        /\ logged[c] = "existing session ID"
        /\ session_id[c] \in DOMAIN sessions
        /\ sessions[session_id[c]].count = 1
        /\ scope[d].type = "websocket"
        /\ phase[d] = "open"
        /\ session_id[d] = session_id[c]

====
